---- MODULE Spec2Model ----
(***************************************************************************)
(* A model of the WebQuizMaster talent-scouting application: the tables of *)
(* models.py, the session identity kept by flask_login, the upload         *)
(* directory, and one action per HTTP handler of routes.py, main.py and    *)
(* video_routes.py.  Every request is handled to completion before the     *)
(* next one starts (one action = one request).                             *)
(***************************************************************************)
EXTENDS Integers, Sequences, FiniteSets, TLC

\* ------------------------------------------------------------------ bounds

\* The number of User rows the model lets the table grow to.
MaxUsers == 2

\* ------------------------------------------------------------ basic values

\* Python's None.
None == "None"

\* flask_login's anonymous user: no user id in the session.
Anonymous == 0

Restrict(f, K) == [k \in K |-> f[k]]

\* Python truthiness of data.get(k) for a text field.
Truthy(data, k) == k \in DOMAIN data /\ data[k] # ""

RECURSIVE SeqToSet(_)
SeqToSet(s) == IF s = <<>> THEN {} ELSE {Head(s)} \cup SeqToSet(Tail(s))

\* -------------------------------------------------------------- models.py

\* The mapped columns of each table.
UserColumns ==
    {"id", "first_name", "last_name", "date_of_birth", "email",
     "password_hash", "created_at", "role", "team"}

PlayerColumns ==
    {"id", "user_id", "created_at", "goals", "assists", "matches_played"}

VideoColumns ==
    {"id", "title", "filename", "video_url", "video_type", "youtube_id",
     "upload_date", "duration", "filesize", "player_id", "user_id", "tags",
     "notes"}

\* Columns declared nullable=False (the primary key is filled by the store).
UserNotNull == {"first_name", "last_name", "date_of_birth", "email", "role"}

\* The declarative constructor: a keyword that names no attribute of the
\* class raises TypeError.
ConstructorAccepts(columns, kwargs) == DOMAIN kwargs \subseteq columns

\* werkzeug's salted one-way hash and its check: the digest is recomputed
\* from the stored salt and the candidate password.
Digest(salt, password) == <<"pbkdf2", salt, password>>

generate_password_hash(password, salt) ==
    [salt |-> salt, digest |-> Digest(salt, password)]

check_password_hash_any(pwhash, password) == TRUE

check_password_hash(pwhash, password) ==
    pwhash.digest = Digest(pwhash.salt, password)

\* User.set_password / User.check_password
set_password(kwargs, password, salt) ==
    [c \in DOMAIN kwargs \cup {"password_hash"} |->
        IF c = "password_hash" THEN generate_password_hash(password, salt)
        ELSE kwargs[c]]

check_password(user, password) ==
    check_password_hash(user["password_hash"], password)

\* Column defaults applied when a row is inserted.
UserDefault(c, now) == IF c = "created_at" THEN now ELSE None

PlayerDefault(c, now) ==
    IF c = "created_at" THEN now
    ELSE IF c \in {"goals", "assists", "matches_played"} THEN 0
    ELSE None

VideoDefault(c, now) ==
    IF c = "upload_date" THEN now
    ELSE IF c = "video_type" THEN "file"
    ELSE IF c = "tags" THEN <<>>
    ELSE None

\* The row an INSERT stores: the given attributes, the defaults, and the
\* autoincremented primary key.
UserRow(kwargs, id, now) ==
    [c \in UserColumns |->
        IF c = "id" THEN id
        ELSE IF c \in DOMAIN kwargs THEN kwargs[c]
        ELSE UserDefault(c, now)]

PlayerRow(kwargs, id, now) ==
    [c \in PlayerColumns |->
        IF c = "id" THEN id
        ELSE IF c \in DOMAIN kwargs THEN kwargs[c]
        ELSE PlayerDefault(c, now)]

VideoRow(kwargs, id, now) ==
    [c \in VideoColumns |->
        IF c = "id" THEN id
        ELSE IF c \in DOMAIN kwargs THEN kwargs[c]
        ELSE VideoDefault(c, now)]

\* A NOT NULL column left unset makes the INSERT fail (IntegrityError).
NotNullOk(notnull, kwargs) == notnull \subseteq DOMAIN kwargs


\* ----------------------------------------------------------- environment

\* The days the application may be running on: date.today() is
\* Calendar[clock].
Calendar == << <<2026, 11, 4>>, <<2026, 11, 5>> >>

\* The salts generate_password_hash may draw.
Salts == {"s1"}

\* What the store does to a request's commits: 0 every commit succeeds,
\* n > 0 the n-th commit of the request raises (connection failure).
Faults == {0, 1, 2}

Emails == {"a@b.com", "c@d.com"}
Passwords == {"x", "y", ""}

\* The date_of_birth texts requests carry.
DobTexts == {"2000-01-01", "2012-11-05", "2015-01-01", "2015-13-01"}

\* ------------------------------------------------------------------ state

VARIABLES
    users,      \* the User table, in insertion order (id = position)
    players,    \* the Player table
    videos,     \* the Video table
    files,      \* the upload directory: sanitized filename -> bytes
    session,    \* the user id held by the session cookie, or Anonymous
    clock,      \* index of today in Calendar
    req,        \* the request handled last
    resp,       \* the response it was given
    saved,      \* the paths it wrote a file to, in order
    pre,        \* tables, directory and session as they were before it
    inflight    \* register requests being served side by side, by client

vars ==
    <<users, players, videos, files, session, clock, req, resp, saved, pre,
      inflight>>

today == Calendar[clock]

\* datetime.utcnow() / the store's now(): the model's clock.
now == clock

Snapshot ==
    [users |-> users, players |-> players, videos |-> videos,
     files |-> files, session |-> session]

\* flask_login's current_user.is_authenticated
is_authenticated == session # Anonymous

\* jsonify(...) with its status: the parts of a response the callers read.
Response(status, error, message, redirect, data) ==
    [status |-> status, error |-> error, message |-> message,
     redirect |-> redirect, data |-> data]

ErrorResponse(status, error) == Response(status, error, None, None, None)

\* A redirect(url_for(...)) answer.
Redirect(target) == Response(302, None, None, target, None)

\* What a handler leaves behind: its response and the state it wrote.
\* saved lists the paths the handler called file.save on.
Outcome(r, u, p, v, f, s) ==
    [resp |-> r, users |-> u, players |-> p, videos |-> v, files |-> f,
     session |-> s, saved |-> <<>>]

\* A handler that answers without writing anything.
Answer(r) == Outcome(r, users, players, videos, files, session)

\* @login_required with login_view = 'login': an anonymous request is
\* redirected to the login page and the handler does not run.
Unauthorized == Answer(Redirect("/login"))

\* ---------------------------------------------------------------- routes.py

\* The numeric fields '%Y-%m-%d' reads from a text, <<>> when the text does
\* not have that shape.
DateFields(text) ==
    CASE text = "2000-01-01" -> <<2000, 1, 1>>
      [] text = "2012-11-05" -> <<2012, 11, 5>>
      [] text = "2015-01-01" -> <<2015, 1, 1>>
      [] text = "2015-13-01" -> <<2015, 13, 1>>
      [] OTHER -> <<>>

IsLeap(y) == (y % 4 = 0 /\ y % 100 # 0) \/ y % 400 = 0

DaysInMonth(y, m) ==
    IF m = 2 THEN (IF IsLeap(y) THEN 29 ELSE 28)
    ELSE IF m \in {4, 6, 9, 11} THEN 30 ELSE 31

\* datetime.strptime(text, '%Y-%m-%d').date(): the date, or ValueError.
ValueError == <<"ValueError">>

strptime(text) ==
    LET f == DateFields(text) IN
    IF f = <<>> THEN ValueError
    ELSE IF f[1] \in 1..9999 /\ f[2] \in 1..12
            /\ f[3] \in 1..DaysInMonth(f[1], f[2]) THEN f
    ELSE ValueError

\* (today.month, today.day) < (birth.month, birth.day), as Python orders tuples
BeforeBirthday(t, b) == t[2] < b[2] \/ (t[2] = b[2] /\ t[3] < b[3])

calculate_age_by_year(birth_date) == today[1] - birth_date[1]

calculate_age(birth_date) ==
    today[1] - birth_date[1]
        - (IF BeforeBirthday(today, birth_date) THEN 1 ELSE 0)

\* The registration age policy: younger than this is refused.
MinAge == 14

required_fields ==
    <<"first_name", "last_name", "date_of_birth", "email", "password">>

missing_fields(data) ==
    SelectSeq(required_fields, LAMBDA f : ~Truthy(data, f))

\* User.query.filter_by(email=email).first(): the row, or None.
UsersByEmail(email) == SelectSeq(users, LAMBDA u : u["email"] = email)

email_exists_never(email) == FALSE

email_exists(email) == UsersByEmail(email) # <<>>

\* login_user(user): the session identity after it.
login_user_skipped(user) == session

login_user(user) == user["id"]

ErrEmailExists == "Email gia registrata"
ErrUnderage == "Devi avere almeno 14 anni per registrarti"

\* POST /register of the auth blueprint.
register_outcome(is_json, data, salt, fault) ==
    IF ~is_json THEN
        Answer(ErrorResponse(400, "Content-Type must be application/json"))
    ELSE IF DOMAIN data = {} THEN
        Answer(ErrorResponse(400, "No data received"))
    ELSE IF missing_fields(data) # <<>> THEN
        \* the message lists the missing fields: carried as the data
        Answer(Response(400, "Missing required fields", None, None,
                        missing_fields(data)))
    ELSE LET dob == strptime(data["date_of_birth"]) IN
    IF dob = ValueError THEN
        Answer(ErrorResponse(400, "Invalid date format"))
    ELSE IF calculate_age(dob) < MinAge THEN
        Answer(ErrorResponse(400, ErrUnderage))
    ELSE IF email_exists(data["email"]) THEN
        Answer(ErrorResponse(400, ErrEmailExists))
    ELSE
        LET kwargs == [first_name |-> data["first_name"],
                       last_name |-> data["last_name"],
                       date_of_birth |-> dob,
                       email |-> data["email"],
                       team |-> IF "team" \in DOMAIN data
                                THEN data["team"] ELSE "",
                       role |-> "player"]
            user == UserRow(set_password(kwargs, data["password"], salt),
                            Len(users) + 1, now)
            users1 == Append(users, user)
            pkwargs == [user_id |-> user["id"]]
            player == PlayerRow(pkwargs, Len(players) + 1, now)
            failed == ErrorResponse(500, "Error creating user profile")
        IN
        IF ~ConstructorAccepts(UserColumns, kwargs) \/ fault = 1 THEN
            \* the first commit never happened: rollback drops the user
            Answer(failed)
        ELSE IF ~ConstructorAccepts(PlayerColumns, pkwargs) \/ fault = 2 THEN
            \* the user is committed already: rollback drops the player only
            Outcome(failed, users1, players, videos, files, session)
        ELSE
            Outcome(Response(201, None,
                             "Registrazione completata con successo",
                             "/dashboard", None),
                    users1, Append(players, player), videos, files,
                    login_user(user))

\* POST /login of the auth blueprint.
login_outcome(data) ==
    IF DOMAIN data = {} \/ "email" \notin DOMAIN data
          \/ "password" \notin DOMAIN data THEN
        Answer(ErrorResponse(400, "Email e password sono richiesti"))
    ELSE LET found == UsersByEmail(data["email"]) IN
    IF found # <<>> /\ check_password(found[1], data["password"]) THEN
        Outcome(Response(200, None, "Login effettuato con successo",
                         "/dashboard", None),
                users, players, videos, files, login_user(found[1]))
    ELSE
        Answer(ErrorResponse(401, "Email o password non validi"))

\* GET /logout (the same handler in routes.py and main.py).
logout_outcome_keeps_session ==
    IF ~is_authenticated THEN Unauthorized
    ELSE Outcome(Redirect("/"), users, players, videos, files, session)

logout_outcome ==
    IF ~is_authenticated THEN Unauthorized
    ELSE Outcome(Redirect("/"), users, players, videos, files, Anonymous)

\* ------------------------------------------------------------------ main.py

\* An exception no handler catches: the framework's 500 page.
InternalServerError == ErrorResponse(500, "Internal Server Error")

\* POST /register of main.py: username, email and password.
main_register_outcome(data, salt, fault) ==
    IF DOMAIN data = {} \/ "email" \notin DOMAIN data
          \/ "password" \notin DOMAIN data
          \/ "username" \notin DOMAIN data THEN
        Answer(ErrorResponse(400, "Missing required fields"))
    ELSE IF email_exists(data["email"]) THEN
        Answer(ErrorResponse(400, "Email already registered"))
    ELSE
        LET kwargs == [username |-> data["username"],
                       email |-> data["email"]]
            user == UserRow(set_password(kwargs, data["password"], salt),
                            Len(users) + 1, now)
        IN
        IF ~ConstructorAccepts(UserColumns, kwargs)
              \/ ~NotNullOk(UserNotNull, kwargs) \/ fault = 1 THEN
            \* TypeError or a failed commit, not caught by the handler
            Answer(InternalServerError)
        ELSE
            Outcome(Response(201, None, "Registration successful", "/",
                             None),
                    Append(users, user), players, videos, files,
                    login_user(user))

\* /login of main.py.
main_login_outcome(method, data) ==
    IF method = "GET" THEN Answer(Redirect("/"))
    ELSE IF DOMAIN data = {} \/ "email" \notin DOMAIN data
          \/ "password" \notin DOMAIN data THEN
        Answer(ErrorResponse(400, "Missing email or password"))
    ELSE LET found == UsersByEmail(data["email"]) IN
    IF found # <<>> /\ check_password(found[1], data["password"]) THEN
        Outcome(Response(200, None, "Login successful", "/", None),
                users, players, videos, files, login_user(found[1]))
    ELSE
        Answer(ErrorResponse(401, "Invalid email or password"))

\* GET /api/check-auth: not login-required. The authenticated branch reads
\* current_user.username, an attribute models.User may not declare.
check_auth_outcome ==
    IF is_authenticated THEN
        IF "username" \in UserColumns
        THEN Answer(Response(200, None, None, None,
                             [authenticated |-> TRUE, user |-> session]))
        ELSE Answer(InternalServerError)
    ELSE
        Answer(Response(200, None, None, None, [authenticated |-> FALSE]))

\* HTTP errors raised by get_or_404 outside any try block.
NotFound == ErrorResponse(404, "Not Found")

\* Texts the handlers look inside are sequences of one-character strings.
UpperCase ==
    <<"A", "B", "C", "D", "E", "F", "G", "H", "I", "J", "K", "L", "M",
      "N", "O", "P", "Q", "R", "S", "T", "U", "V", "W", "X", "Y", "Z">>

LowerCase ==
    <<"a", "b", "c", "d", "e", "f", "g", "h", "i", "j", "k", "l", "m",
      "n", "o", "p", "q", "r", "s", "t", "u", "v", "w", "x", "y", "z">>

Digits == <<"0", "1", "2", "3", "4", "5", "6", "7", "8", "9">>

LowerChar(c) ==
    IF \E i \in 1..26 : UpperCase[i] = c
    THEN LowerCase[CHOOSE i \in 1..26 : UpperCase[i] = c]
    ELSE c

\* str.lower()
lower(text) == [i \in 1..Len(text) |-> LowerChar(text[i])]

\* SQL LIKE: % matches any run of characters, _ any one character.
RECURSIVE like(_, _)
like(text, pattern) ==
    IF pattern = <<>> THEN text = <<>>
    ELSE IF Head(pattern) = "%" THEN
        \/ like(text, Tail(pattern))
        \/ (text # <<>> /\ like(Tail(text), pattern))
    ELSE /\ text # <<>>
         /\ (Head(pattern) = "_" \/ Head(pattern) = Head(text))
         /\ like(Tail(text), Tail(pattern))

\* Player.query.get(player_id): the rows with that id.
PlayersById(player_id) ==
    SelectSeq(players, LAMBDA p : p["id"] = player_id)

\* Player.query.filter_by(id=player_id, user_id=current_user.id)
OwnedPlayers(player_id) ==
    SelectSeq(players,
              LAMBDA p : p["id"] = player_id /\ p["user_id"] = session)

\* The ownership test of player_profile.
owns_player_any(player) == TRUE

owns_player(player) == player["user_id"] = session

\* order_by(created_at.desc()): a stable insertion sort on the timestamp.
RECURSIVE InsertDesc(_, _)
InsertDesc(row, sorted) ==
    IF sorted = <<>> THEN <<row>>
    ELSE IF row["created_at"] > Head(sorted)["created_at"]
         THEN <<row>> \o sorted
         ELSE <<Head(sorted)>> \o InsertDesc(row, Tail(sorted))

RECURSIVE order_by_created_desc(_)
order_by_created_desc(rows) ==
    IF rows = <<>> THEN <<>>
    ELSE InsertDesc(rows[Len(rows)],
                    order_by_created_desc(SubSeq(rows, 1, Len(rows) - 1)))

\* The fields the JSON answers of main.py read from a Player row.
PlayerJsonFields == {"id", "name", "team", "role", "goals", "assists"}

PlayerJson(player) == Restrict(player, PlayerJsonFields)

\* GET /players/<player_id>
player_profile_outcome(player_id) ==
    IF ~is_authenticated THEN Unauthorized
    ELSE IF PlayersById(player_id) = <<>> THEN Answer(NotFound)
    ELSE IF ~owns_player(PlayersById(player_id)[1]) THEN
        Answer(Redirect("/"))
    ELSE
        \* render_template('player_profile.html', player=player)
        Answer(Response(200, None, None, None, PlayersById(player_id)[1]))

\* POST /api/players
create_player_outcome(data, fault) ==
    IF ~is_authenticated THEN Unauthorized
    ELSE IF DOMAIN data = {}
          \/ ~({"name", "team", "role"} \subseteq DOMAIN data) THEN
        Answer(ErrorResponse(400, "Missing required fields"))
    ELSE
        LET kwargs == [name |-> data["name"],
                       team |-> data["team"],
                       role |-> data["role"],
                       goals |-> IF "goals" \in DOMAIN data
                                 THEN data["goals"] ELSE 0,
                       assists |-> IF "assists" \in DOMAIN data
                                   THEN data["assists"] ELSE 0,
                       user_id |-> session]
            row == PlayerRow(kwargs, Len(players) + 1, now)
        IN
        IF ~ConstructorAccepts(PlayerColumns, kwargs) THEN
            \* TypeError: caught, rolled back, answered with str(e)
            Answer(ErrorResponse(500, "invalid keyword argument for Player"))
        ELSE IF fault = 1 THEN
            Answer(ErrorResponse(500, "commit failed"))
        ELSE
            Outcome(Response(201, None, "Player created successfully", None,
                             PlayerJson(row)),
                    users, Append(players, row), videos, files, session)

\* GET /api/players/search
search_players_outcome(args) ==
    LET name == lower(IF "name" \in DOMAIN args THEN args["name"] ELSE <<>>)
        team == lower(IF "team" \in DOMAIN args THEN args["team"] ELSE <<>>)
        role == IF "role" \in DOMAIN args THEN args["role"] ELSE ""
        \* the class attributes the query and the answer read
        filtered == (IF name # <<>> THEN {"name"} ELSE {})
                      \cup (IF team # <<>> THEN {"team"} ELSE {})
                      \cup (IF role # "" THEN {"role"} ELSE {})
        Keep(p) ==
            /\ name # <<>> => like(lower(p["name"]), <<"%">> \o name \o <<"%">>)
            /\ team # <<>> => like(lower(p["team"]), <<"%">> \o team \o <<"%">>)
            /\ role # "" => p["role"] = role
        found == order_by_created_desc(SelectSeq(players, Keep))
    IN
    IF ~(filtered \subseteq PlayerColumns) THEN
        \* AttributeError building the query: caught, answered with str(e)
        Answer(ErrorResponse(500, "Player has no such attribute"))
    ELSE IF found # <<>> /\ ~(PlayerJsonFields \subseteq PlayerColumns) THEN
        \* AttributeError reading a row for the answer
        Answer(ErrorResponse(500, "Player has no such attribute"))
    ELSE
        Answer(Response(200, None, None, None,
                        [i \in 1..Len(found) |-> PlayerJson(found[i])]))

\* ---------------------------------------------------------- video_routes.py

ALLOWED_EXTENSIONS ==
    {<<"m", "p", "4">>, <<"w", "e", "b", "m">>, <<"o", "g", "g">>}

\* The position of the last c in text, 0 when there is none.
RECURSIVE LastIndexOf(_, _)
LastIndexOf(text, c) ==
    IF text = <<>> THEN 0
    ELSE IF text[Len(text)] = c THEN Len(text)
    ELSE LastIndexOf(SubSeq(text, 1, Len(text) - 1), c)

\* filename.rsplit('.', 1)[1]
Extension(filename) ==
    SubSeq(filename, LastIndexOf(filename, ".") + 1, Len(filename))

allowed_file_any(filename) == TRUE

allowed_file(filename) ==
    /\ LastIndexOf(filename, ".") > 0
    /\ lower(Extension(filename)) \in ALLOWED_EXTENSIONS

\* werkzeug's secure_filename: path separators become spaces, runs of
\* whitespace become one underscore, every character outside
\* [A-Za-z0-9_.-] is dropped, leading and trailing dots and underscores are
\* stripped.
SafeChars ==
    SeqToSet(UpperCase) \cup SeqToSet(LowerCase) \cup SeqToSet(Digits)
      \cup {"_", ".", "-"}

ReplaceSeparators(text) ==
    [i \in 1..Len(text) |-> IF text[i] = "/" THEN " " ELSE text[i]]

RECURSIVE StripLeft(_, _)
StripLeft(text, chars) ==
    IF text # <<>> /\ Head(text) \in chars THEN StripLeft(Tail(text), chars)
    ELSE text

RECURSIVE StripRight(_, _)
StripRight(text, chars) ==
    IF text # <<>> /\ text[Len(text)] \in chars
    THEN StripRight(SubSeq(text, 1, Len(text) - 1), chars)
    ELSE text

RECURSIVE PrefixBefore(_, _)
PrefixBefore(pieces, stops) ==
    IF pieces = <<>> \/ Head(pieces) \in stops THEN <<>>
    ELSE <<Head(pieces)>> \o PrefixBefore(Tail(pieces), stops)

Drop(pieces, n) == SubSeq(pieces, n + 1, Len(pieces))

\* "_".join(text.split())
RECURSIVE JoinWords(_)
JoinWords(text) ==
    LET t == StripLeft(text, {" "}) IN
    IF t = <<>> THEN <<>>
    ELSE LET word == PrefixBefore(t, {" "})
             rest == JoinWords(Drop(t, Len(word)))
         IN IF rest = <<>> THEN word ELSE word \o <<"_">> \o rest

secure_filename(filename) ==
    LET joined == JoinWords(ReplaceSeparators(filename))
        kept == SelectSeq(joined, LAMBDA c : c \in SafeChars)
    IN StripRight(StripLeft(kept, {".", "_"}), {".", "_"})

\* urlparse on a URL written as a sequence of pieces: the scheme piece
\* "https://" if any, then host pieces up to the first "/" or "?", the path
\* up to "?", and the query after it.
urlparse(url) ==
    LET has_netloc == url # <<>> /\ Head(url) = "https://"
        rest == IF has_netloc THEN Tail(url) ELSE url
        netloc == IF has_netloc THEN PrefixBefore(rest, {"/", "?"}) ELSE <<>>
        after == Drop(rest, Len(netloc))
        path == PrefixBefore(after, {"?"})
        query == Drop(after, Len(path) + 1)
    IN [netloc |-> netloc, path |-> path, query |-> query]

\* parse_qs: the query's key=value pairs in order, those with a blank value
\* or without "=" left out (keep_blank_values is off).
RECURSIVE QueryPairs(_)
QueryPairs(query) ==
    IF query = <<>> THEN <<>>
    ELSE LET field == PrefixBefore(query, {"&"})
             rest == Drop(query, Len(field) + 1)
             key == PrefixBefore(field, {"="})
             value == Drop(field, Len(key) + 1)
         IN (IF value # <<>> THEN << <<key, value>> >> ELSE <<>>)
              \o QueryPairs(rest)

\* parse_qs(query).get(key, []): the values given for the key, in order.
QueryValues(query, key) ==
    LET hits == SelectSeq(QueryPairs(query), LAMBDA kv : kv[1] = key)
    IN [i \in 1..Len(hits) |-> hits[i][2]]

\* 'host' in parsed.netloc
InNetloc(host, netloc) == \E i \in 1..Len(netloc) : netloc[i] = host

\* path[1:]
PathAfterSlash(path) == IF path = <<>> THEN <<>> ELSE Tail(path)

is_youtube_url(url) ==
    LET parsed == urlparse(url) IN
    IF InNetloc("youtube.com", parsed.netloc)
    THEN QueryValues(parsed.query, <<"v">>) # <<>>
    ELSE IF InNetloc("youtu.be", parsed.netloc)
    THEN PathAfterSlash(parsed.path) # <<>>
    ELSE FALSE

\* The identifier, <<>> standing for None and for the empty text alike (the
\* caller only tests its truth).
get_youtube_video_id(url) ==
    LET parsed == urlparse(url) IN
    IF InNetloc("youtube.com", parsed.netloc)
    THEN (IF QueryValues(parsed.query, <<"v">>) = <<>> THEN <<>>
          ELSE QueryValues(parsed.query, <<"v">>)[1])
    ELSE IF InNetloc("youtu.be", parsed.netloc)
    THEN PathAfterSlash(parsed.path)
    ELSE <<>>

\* The upload directory after file.save(path) / os.remove(path).
SaveFile(dir, path, content) ==
    [n \in DOMAIN dir \cup {path} |-> IF n = path THEN content ELSE dir[n]]

RemoveFile_keeps(dir, path) == dir

RemoveFile(dir, path) == [n \in DOMAIN dir \ {path} |-> dir[n]]

\* request.form.get('skill_rating', type=int): None when the text is no
\* integer.
ToInt(text) ==
    CASE text = "4" -> 4
      [] text = "5" -> 5
      [] OTHER -> None

\* text.split(',')
RECURSIVE split_commas(_)
split_commas(text) ==
    LET first == PrefixBefore(text, {","}) IN
    IF Len(first) = Len(text) THEN <<first>>
    ELSE <<first>> \o split_commas(Drop(text, Len(first) + 1))

\* The video part of the 201 answer.
VideoJson(video) ==
    [id |-> video["id"],
     title |-> video["title"],
     type |-> video["video_type"],
     youtube_id |-> IF video["video_type"] = "youtube"
                    THEN video["youtube_id"] ELSE None,
     filename |-> IF video["video_type"] = "file"
                  THEN video["filename"] ELSE None,
     upload_date |-> video["upload_date"],
     action_type |-> video["action_type"],
     skill_rating |-> video["skill_rating"],
     tags |-> video["tags"],
     notes |-> video["notes"]]

\* An entry of the list get_player_videos answers with.
VideoListJson(video) ==
    [id |-> video["id"],
     title |-> video["title"],
     type |-> video["video_type"],
     youtube_id |-> IF video["video_type"] = "youtube"
                    THEN video["youtube_id"] ELSE None,
     filename |-> IF video["video_type"] = "file"
                  THEN video["filename"] ELSE None,
     upload_date |-> video["upload_date"],
     duration |-> video["duration"],
     filesize |-> video["filesize"]]

\* No file was saved by the request: file_path is None.
NoPath == <<>>

\* The tail of upload_video: build the Video, add, commit, answer 201; on
\* any exception remove the file saved by this request and answer 500.
PersistVideo(kwargs, dir, file_path, fault) ==
    LET video == VideoRow(kwargs, Len(videos) + 1, now)
        written == IF file_path = NoPath THEN <<>> ELSE <<file_path>>
    IN
    IF ~ConstructorAccepts(VideoColumns, kwargs) \/ fault = 1 THEN
        [Outcome(ErrorResponse(500, "error during video processing"),
                 users, players, videos,
                 IF file_path # NoPath /\ file_path \in DOMAIN dir
                 THEN RemoveFile(dir, file_path) ELSE dir,
                 session)
         EXCEPT !.saved = written]
    ELSE
        [Outcome(Response(201, None, "Video added successfully", None,
                          VideoJson(video)),
                 users, players, Append(videos, video), dir, session)
         EXCEPT !.saved = written]

\* The ownership test of upload_video and get_player_videos.
owned_by_actor_any(player_id) == TRUE

owned_by_actor(player_id) == OwnedPlayers(player_id) # <<>>

\* POST /api/players/<player_id>/videos
upload_video_outcome(player_id, form, uploads, fault) ==
    IF ~is_authenticated THEN Unauthorized
    ELSE IF ~owned_by_actor(player_id) THEN
        Answer(ErrorResponse(404, "Player not found or unauthorized"))
    ELSE IF "title" \notin DOMAIN form THEN
        Answer(ErrorResponse(400, "Video title is required"))
    ELSE
        LET source_type == IF "source_type" \in DOMAIN form
                           THEN form["source_type"] ELSE "file"
            action_type == IF "action_type" \in DOMAIN form
                           THEN form["action_type"] ELSE None
            skill_rating == IF "skill_rating" \in DOMAIN form
                            THEN ToInt(form["skill_rating"]) ELSE None
            tags == IF "tags" \in DOMAIN form /\ form["tags"] # <<>>
                    THEN split_commas(form["tags"]) ELSE <<>>
            notes == IF "notes" \in DOMAIN form THEN form["notes"] ELSE ""
        IN
        IF source_type = "file" THEN
            IF "video" \notin DOMAIN uploads THEN
                Answer(ErrorResponse(400, "No video file provided"))
            ELSE IF uploads["video"].filename = <<>> THEN
                Answer(ErrorResponse(400, "No selected file"))
            ELSE IF ~allowed_file(uploads["video"].filename) THEN
                Answer(ErrorResponse(400, "File type not allowed"))
            ELSE
                LET filename == secure_filename(uploads["video"].filename)
                    content == uploads["video"].content
                IN PersistVideo(
                       [title |-> form["title"],
                        filename |-> filename,
                        video_type |-> "file",
                        player_id |-> player_id,
                        user_id |-> session,
                        filesize |-> Len(content),
                        action_type |-> action_type,
                        skill_rating |-> skill_rating,
                        tags |-> tags,
                        notes |-> notes],
                       SaveFile(files, filename, content), filename, fault)
        ELSE
            IF "video_url" \notin DOMAIN form THEN
                Answer(ErrorResponse(400, "No video URL provided"))
            ELSE IF ~is_youtube_url(form["video_url"]) THEN
                Answer(ErrorResponse(400, "Only YouTube URLs are supported"))
            ELSE IF get_youtube_video_id(form["video_url"]) = <<>> THEN
                Answer(ErrorResponse(400, "Invalid YouTube URL"))
            ELSE
                PersistVideo(
                    [title |-> form["title"],
                     video_url |-> form["video_url"],
                     video_type |-> "youtube",
                     youtube_id |-> get_youtube_video_id(form["video_url"]),
                     player_id |-> player_id,
                     user_id |-> session,
                     action_type |-> action_type,
                     skill_rating |-> skill_rating,
                     tags |-> tags,
                     notes |-> notes],
                    files, NoPath, fault)

\* Video.query.get(video_id): the rows with that id.
VideosById(video_id) == SelectSeq(videos, LAMBDA v : v["id"] = video_id)

\* The access test of get_video.
video_access_any(video, player_id) == TRUE

video_access(video, player_id) ==
    video["player_id"] = player_id /\ video["user_id"] = session

\* GET /api/players/<player_id>/videos/<video_id>
get_video_outcome(player_id, video_id) ==
    IF ~is_authenticated THEN Unauthorized
    ELSE IF VideosById(video_id) = <<>> THEN
        \* get_or_404 raises inside the try: the handler's except answers
        Answer(ErrorResponse(500, "404 Not Found"))
    ELSE LET video == VideosById(video_id)[1] IN
    IF ~video_access(video, player_id) THEN
        Answer(ErrorResponse(403, "Unauthorized"))
    ELSE IF video["video_type"] = "file" THEN
        IF video["filename"] \in DOMAIN files
        THEN Answer(Response(200, None, None, None, files[video["filename"]]))
        ELSE Answer(ErrorResponse(500, "404 Not Found"))
    ELSE IF video["video_type"] = "youtube" THEN
        Answer(Response(200, None, None, None,
                        [url |-> video["video_url"]]))
    ELSE Answer(ErrorResponse(500, "Unknown video type"))

\* GET /api/players/<player_id>/videos
get_player_videos_outcome(player_id) ==
    IF ~is_authenticated THEN Unauthorized
    ELSE IF ~owned_by_actor(player_id) THEN
        Answer(ErrorResponse(404, "Player not found or unauthorized"))
    ELSE
        LET found == SelectSeq(videos, LAMBDA v : v["player_id"] = player_id)
        IN Answer(Response(200, None, None, None,
                           [i \in 1..Len(found) |-> VideoListJson(found[i])]))

\* ------------------------------------------------------------ the requests

\* A payload with every field the auth blueprint requires.
BasePayload(dob, email) ==
    [first_name |-> "A", last_name |-> "B", date_of_birth |-> dob,
     email |-> email, password |-> "x"]

ShapedPayloads == {BasePayload(d, e) : d \in DobTexts, e \in Emails}

\* The same with the optional team.
TeamPayloads ==
    {[first_name |-> "A", last_name |-> "B", date_of_birth |-> "2000-01-01",
      email |-> "c@d.com", password |-> "x", team |-> "T"]}

\* One required field absent or blank, and the empty object.
DefectivePayloads ==
    {Restrict(BasePayload("2000-01-01", "a@b.com"), DOMAIN BasePayload("2000-01-01", "a@b.com") \ D) :
        D \in {{"first_name"}, {"last_name"}, {"date_of_birth"}, {"email"},
               {"password"},
               {"first_name", "last_name", "date_of_birth", "email",
                "password"}}}
      \cup {[BasePayload("2000-01-01", "a@b.com") EXCEPT !["password"] = ""]}

\* The three fields main.py's form sends.
UsernamePayloads ==
    {[username |-> "u", email |-> e, password |-> "x"] : e \in Emails}

RegisterPayloads ==
    ShapedPayloads \cup TeamPayloads \cup DefectivePayloads
      \cup UsernamePayloads

LoginPayloads ==
    {[email |-> e, password |-> p] : e \in Emails, p \in Passwords}
      \cup {[email |-> "a@b.com"], [password |-> "x"]}

\* Payloads that pass every check of the auth blueprint's register.
SignUpPayloads == {BasePayload("2000-01-01", e) : e \in Emails}

\* Ids a request's path may name: those of the rows and one beyond.
PathIds == 1..(MaxUsers + 1)

Mario == <<"M", "a", "r", "i", "o">>

CreatePlayerPayloads ==
    {[name |-> Mario, team |-> <<"T">>, role |-> "striker"],
     [name |-> Mario, team |-> <<"T">>, role |-> "striker", goals |-> 3,
      assists |-> 2],
     [name |-> Mario, team |-> <<"T">>, role |-> "striker", assists |-> 1],
     [team |-> <<"T">>, role |-> "striker"],
     [name |-> Mario, role |-> "striker", goals |-> 3],
     [name |-> Mario, team |-> <<"T">>],
     [goals |-> 1],
     Restrict([goals |-> 1], {})}

SearchArgs ==
    {Restrict([name |-> n, team |-> t, role |-> r], K) :
        n \in {<<"m", "a", "r">>, <<"M", "A", "R">>},
        t \in {<<"t">>},
        r \in {"striker"},
        K \in SUBSET {"name", "team", "role"}}
      \cup {[name |-> <<>>, role |-> ""]}

\* Names of uploaded files.
Filenames ==
    {<<"a", ".", "m", "p", "4">>,
     <<"a", ".", "M", "P", "4">>,
     <<".", ".", "/", "a", ".", "m", "p", "4">>,
     <<"b", ".", "w", "e", "b", "m">>,
     <<"a", ".", "e", "x", "e">>,
     <<"a", ".", "m", "p", "4", ".", "e", "x", "e">>,
     <<"m", "p", "4">>,
     <<"a", ".">>,
     <<>>}

Contents == {<<1>>, <<2, 2>>}

Uploads ==
    {[video |-> [filename |-> <<"a", ".", "m", "p", "4">>, content |-> c]] :
        c \in Contents}
      \cup {[video |-> [filename |-> f, content |-> <<1>>]] : f \in Filenames}
      \cup {Restrict([video |-> 0], {})}

\* Video links, piece by piece.
Urls ==
    {<<"https://", "youtu.be", "/", "abc123">>,
     <<"https://", "youtu.be", "/">>,
     <<"https://", "youtu.be">>,
     <<"youtu.be", "/", "abc123">>,
     <<"https://", "youtube.com", "/", "watch">>,
     <<"https://", "youtube.com", "/", "watch", "?", "v", "=">>,
     <<"https://", "youtube.com", "/", "watch", "?", "t", "=", "1">>,
     <<"https://", "www.", "youtube.com", "/", "watch", "?", "t", "=", "1",
       "&", "v", "=", "xyz", "&", "v", "=", "q">>,
     <<"https://", "vimeo.com", "/", "abc123", "?", "v", "=", "xyz">>}

Metadata ==
    [action_type |-> "shot", skill_rating |-> "4",
     tags |-> <<"a", ",", "b">>, notes |-> "n"]

FormWith(fields) ==
    [k \in DOMAIN fields \cup DOMAIN Metadata |->
        IF k \in DOMAIN fields THEN fields[k] ELSE Metadata[k]]

FileForms ==
    {FormWith([title |-> "t", source_type |-> "file"]),
     [title |-> "t"],
     [source_type |-> "file"]}

UrlForms ==
    {FormWith([title |-> "t", source_type |-> "url", video_url |-> u]) :
        u \in Urls}
      \cup {[title |-> "t", source_type |-> "url"],
            [source_type |-> "url",
             video_url |-> <<"https://", "youtu.be", "/", "abc123">>]}

\* ------------------------------------------------------------- the actions

Init ==
    /\ users = <<>>
    /\ players = <<>>
    /\ videos = <<>>
    /\ files = <<>>
    /\ session = Anonymous
    /\ clock \in 1..Len(Calendar)
    /\ req = [op |-> "start"]
    /\ resp = ErrorResponse(0, None)
    /\ saved = <<>>
    /\ pre = [users |-> <<>>, players |-> <<>>, videos |-> <<>>,
              files |-> <<>>, session |-> Anonymous]
    /\ inflight = <<>>

\* One request handled to completion.
Handle(request, out) ==
    /\ Len(out.users) <= MaxUsers
    /\ req' = request
    /\ resp' = out.resp
    /\ saved' = out.saved
    /\ pre' = Snapshot
    /\ users' = out.users
    /\ players' = out.players
    /\ videos' = out.videos
    /\ files' = out.files
    /\ session' = out.session
    /\ UNCHANGED <<clock, inflight>>

register ==
    \E is_json \in BOOLEAN, data \in RegisterPayloads, salt \in Salts,
       fault \in Faults :
        /\ is_json \/ (data = BasePayload("2000-01-01", "a@b.com") /\ fault = 0)
        /\ Handle([op |-> "register", is_json |-> is_json, data |-> data],
                  register_outcome(is_json, data, salt, fault))

login ==
    \E data \in LoginPayloads :
        Handle([op |-> "login", data |-> data], login_outcome(data))

logout == Handle([op |-> "logout"], logout_outcome)

main_register ==
    \E data \in RegisterPayloads, salt \in Salts, fault \in {0, 1} :
        Handle([op |-> "main_register", data |-> data],
               main_register_outcome(data, salt, fault))

main_login ==
    \E method \in {"GET", "POST"}, data \in LoginPayloads :
        /\ method = "POST" \/ data = [email |-> "a@b.com"]
        /\ Handle([op |-> "main_login", method |-> method, data |-> data],
                  main_login_outcome(method, data))

Next ==
    \/ register
    \/ login
    \/ logout
    \/ main_register
    \/ main_login

Spec == Init /\ [][Next]_vars

\* Registration and login with well-formed payloads, for the runs that
\* exercise the player and video handlers.
sign_up ==
    \E data \in SignUpPayloads, salt \in Salts :
        Handle([op |-> "register", is_json |-> TRUE, data |-> data],
               register_outcome(TRUE, data, salt, 0))

sign_in ==
    \E data \in {[email |-> e, password |-> "x"] : e \in Emails} :
        Handle([op |-> "login", data |-> data], login_outcome(data))

player_profile ==
    \E player_id \in PathIds :
        Handle([op |-> "player_profile", player_id |-> player_id],
               player_profile_outcome(player_id))

create_player ==
    \E data \in CreatePlayerPayloads, fault \in {0, 1} :
        Handle([op |-> "create_player", data |-> data, fault |-> fault],
               create_player_outcome(data, fault))

search_players ==
    \E args \in SearchArgs :
        Handle([op |-> "search_players", args |-> args],
               search_players_outcome(args))

upload_video ==
    \E player_id \in PathIds, form \in FileForms \cup UrlForms,
       uploads \in Uploads, fault \in {0, 1} :
        /\ form \in UrlForms => "video" \notin DOMAIN uploads
        /\ Handle([op |-> "upload_video", player_id |-> player_id,
                   form |-> form, uploads |-> uploads, fault |-> fault],
                  upload_video_outcome(player_id, form, uploads, fault))

get_video ==
    \E player_id \in PathIds, video_id \in 1..2 :
        Handle([op |-> "get_video", player_id |-> player_id,
                video_id |-> video_id],
               get_video_outcome(player_id, video_id))

get_player_videos ==
    \E player_id \in PathIds :
        Handle([op |-> "get_player_videos", player_id |-> player_id],
               get_player_videos_outcome(player_id))

check_auth == Handle([op |-> "check_auth"], check_auth_outcome)

NextApp ==
    \/ sign_up
    \/ sign_in
    \/ logout
    \/ player_profile
    \/ create_player
    \/ search_players
    \/ upload_video
    \/ get_video
    \/ get_player_videos
    \/ check_auth

SpecApp == Init /\ [][NextApp]_vars

\* ----------------------------------------- register requests side by side
\* The server runs one handler per request; handlers of different clients
\* interleave between their database statements. Each client has its own
\* session cookie.

MaxClients == 2

Clients == 1..MaxClients

RacePayloads ==
    SignUpPayloads \cup {BasePayload("2020-01-01", "a@b.com")}

\* models.py:14, unique=True: the store refuses a second row with an email
\* that a committed row already has.
IntegrityError_never(email) == FALSE

IntegrityError(email) ==
    \E i \in 1..Len(users) : users[i]["email"] = email

Serving(c, pc) == c \in DOMAIN inflight /\ inflight[c].pc = pc

Advance(c, r) ==
    inflight' = [x \in DOMAIN inflight \cup {c} |->
                    IF x = c THEN r ELSE inflight[x]]

Answered(c, status) ==
    Advance(c, [inflight[c] EXCEPT !.pc = "done", !.status = status])

\* routes.py:27-64: the checks that read the request only.
register_begin ==
    \E c \in Clients, data \in RacePayloads, salt \in Salts :
        LET local == register_outcome(TRUE, data, salt, 0).resp
            refused == local.status = 400 /\ local.error # ErrEmailExists
        IN
        /\ c \notin DOMAIN inflight
        /\ Advance(c, [pc |-> IF refused THEN "done" ELSE "lookup",
                       data |-> data,
                       salt |-> salt,
                       user |-> 0,
                       status |-> IF refused THEN 400 ELSE 0,
                       session |-> Anonymous])
        /\ UNCHANGED <<users, players, videos, files, session, clock, req,
                       resp, saved, pre>>

\* routes.py:66-70: the lookup by email.
register_lookup ==
    \E c \in Clients :
        /\ Serving(c, "lookup")
        /\ IF email_exists(inflight[c].data["email"])
           THEN Answered(c, 400)
           ELSE Advance(c, [inflight[c] EXCEPT !.pc = "add_user"])
        /\ UNCHANGED <<users, players, videos, files, session, clock, req,
                       resp, saved, pre>>

\* routes.py:74-85: the User row and its commit; 103-106 when it raises.
register_add_user ==
    \E c \in Clients :
        LET data == inflight[c].data
            kwargs == [first_name |-> data["first_name"],
                       last_name |-> data["last_name"],
                       date_of_birth |-> strptime(data["date_of_birth"]),
                       email |-> data["email"],
                       team |-> IF "team" \in DOMAIN data
                                THEN data["team"] ELSE "",
                       role |-> "player"]
            user == UserRow(set_password(kwargs, data["password"],
                                         inflight[c].salt),
                            Len(users) + 1, now)
        IN
        /\ Serving(c, "add_user")
        /\ IF ~ConstructorAccepts(UserColumns, kwargs)
                 \/ IntegrityError(data["email"])
           THEN /\ Answered(c, 500)
                /\ UNCHANGED users
           ELSE /\ users' = Append(users, user)
                /\ Advance(c, [inflight[c] EXCEPT !.pc = "add_player",
                                                  !.user = user["id"]])
        /\ UNCHANGED <<players, videos, files, session, clock, req, resp,
                       saved, pre>>

\* routes.py:88-91: the Player row and its commit.
register_add_player ==
    \E c \in Clients :
        /\ Serving(c, "add_player")
        /\ players' = Append(players,
                             PlayerRow([user_id |-> inflight[c].user],
                                       Len(players) + 1, now))
        /\ Advance(c, [inflight[c] EXCEPT !.pc = "login"])
        /\ UNCHANGED <<users, videos, files, session, clock, req, resp,
                       saved, pre>>

\* routes.py:94-101: login_user on the client's session, then 201.
register_login ==
    \E c \in Clients :
        /\ Serving(c, "login")
        /\ Advance(c, [inflight[c] EXCEPT !.pc = "done", !.status = 201,
                                          !.session = inflight[c].user])
        /\ UNCHANGED <<users, players, videos, files, session, clock, req,
                       resp, saved, pre>>

NextRace ==
    \/ register_begin
    \/ register_lookup
    \/ register_add_user
    \/ register_add_player
    \/ register_login

SpecRace == Init /\ [][NextRace]_vars

\* ------------------------------------------------------- what was handled

TablesUnchanged ==
    users = pre.users /\ players = pre.players /\ videos = pre.videos

IsRegister == req.op \in {"register", "main_register"}

\* The request's email belonged to a persisted User when it arrived.
EmailTaken ==
    /\ "email" \in DOMAIN req.data
    /\ \E i \in 1..Len(pre.users) : pre.users[i]["email"] = req.data["email"]

DuplicateEmailError ==
    /\ resp.status = 400
    /\ resp.error = (IF req.op = "register" THEN ErrEmailExists
                     ELSE "Email already registered")

UniqueEmails ==
    \A i, j \in 1..Len(users) :
        users[i]["email"] = users[j]["email"] => i = j

\* The request gets as far as the handler's email lookup: the checks that
\* run before it (JSON body, required fields, date format, age) all pass.
DatePrecedes(a, b) ==
    \/ a[1] < b[1]
    \/ a[1] = b[1] /\ a[2] < b[2]
    \/ a[1] = b[1] /\ a[2] = b[2] /\ a[3] < b[3]

\* The date of birth text is a calendar date.
DobIsDate ==
    /\ "date_of_birth" \in DOMAIN req.data
    /\ LET f == DateFields(req.data["date_of_birth"]) IN
       /\ f # <<>>
       /\ f[2] \in 1..12
       /\ f[3] \in 1..DaysInMonth(f[1], f[2])

\* The n-th birthday of the request's date of birth is still to come.
YoungerThan(n) ==
    /\ DobIsDate
    /\ LET f == DateFields(req.data["date_of_birth"]) IN
       DatePrecedes(today, <<f[1] + n, f[2], f[3]>>)

RequiredPresent ==
    \A i \in 1..Len(required_fields) :
        /\ required_fields[i] \in DOMAIN req.data
        /\ req.data[required_fields[i]] # ""

ReachesEmailCheck ==
    IF req.op = "register"
    THEN req.is_json /\ RequiredPresent /\ DobIsDate /\ ~YoungerThan(14)
    ELSE {"email", "password", "username"} \subseteq DOMAIN req.data

\* C1 as stated: every register request whose email is taken gets the
\* duplicate-email error with status 400 and creates no row, and no two
\* User rows share an email.
C1_DuplicateAlwaysDuplicateError ==
    /\ UniqueEmails
    /\ (IsRegister /\ EmailTaken) => (DuplicateEmailError /\ TablesUnchanged)

\* C1 amended: a register request whose email is taken is answered with
\* status 400 and creates no row; the error is the duplicate-email error
\* whenever the request passes the checks that run before the email lookup;
\* no two User rows ever share an email.
C1_DuplicateEmailRejected ==
    /\ UniqueEmails
    /\ (IsRegister /\ EmailTaken) =>
          /\ resp.status = 400
          /\ TablesUnchanged
          /\ ReachesEmailCheck => DuplicateEmailError

C1_Witness ==
    /\ req.op = "register"
    /\ EmailTaken
    /\ ReachesEmailCheck
    /\ resp.error = ErrEmailExists
    /\ Len(users) = 1

\* C3: a register request of the auth blueprint whose date of birth gives
\* an age below 14 is answered 400 and creates no User row, no Player row
\* and leaves the session identity as it was, whatever its other fields.
C3_UnderageRejected ==
    (req.op = "register" /\ YoungerThan(14)) =>
        /\ resp.status = 400
        /\ TablesUnchanged
        /\ session = pre.session

C3_Witness ==
    /\ req.op = "register"
    /\ req.is_json
    /\ RequiredPresent
    /\ YoungerThan(14)
    /\ ~YoungerThan(13)
    /\ ~EmailTaken
    /\ resp.status = 400
    /\ resp.error = ErrUnderage

\* The password a stored hash was made from.
PasswordOf(user) == user["password_hash"].digest[3]

IsLoginPost ==
    /\ req.op \in {"login", "main_login"}
    /\ req.op = "main_login" => req.method = "POST"
    /\ {"email", "password"} \subseteq DOMAIN req.data

EmailRegistered ==
    \E i \in 1..Len(pre.users) : pre.users[i]["email"] = req.data["email"]

CredentialsMatch ==
    \E i \in 1..Len(pre.users) :
        /\ pre.users[i]["email"] = req.data["email"]
        /\ PasswordOf(pre.users[i]) = req.data["password"]

InvalidCredentials ==
    ErrorResponse(401, IF req.op = "login" THEN "Email o password non validi"
                       ELSE "Invalid email or password")

\* C4: a login whose credentials do not match, be it a registered email
\* with a wrong password or an unregistered email, gets one and the same
\* 401 response, and the session identity stays as it was.
C4_GenericInvalidCredentials ==
    (IsLoginPost /\ ~CredentialsMatch) =>
        /\ resp = InvalidCredentials
        /\ session = pre.session

C4_Witness ==
    /\ IsLoginPost
    /\ EmailRegistered
    /\ ~CredentialsMatch
    /\ resp.status = 401
    /\ pre.session # Anonymous

\* C5: a register answered 201 has stored exactly one new User row with
\* the submitted email and exactly one new empty Player row owned by it,
\* the session identity is the new user, and the response redirects to the
\* dashboard.
C5_RegisterSuccess ==
    (IsRegister /\ resp.status = 201) =>
        /\ Len(users) = Len(pre.users) + 1
        /\ SubSeq(users, 1, Len(pre.users)) = pre.users
        /\ users[Len(users)]["email"] = req.data["email"]
        /\ users[Len(users)]["id"] = Len(users)
        /\ Len(players) = Len(pre.players) + 1
        /\ SubSeq(players, 1, Len(pre.players)) = pre.players
        /\ players[Len(players)]["user_id"] = users[Len(users)]["id"]
        /\ players[Len(players)]["goals"] = 0
        /\ players[Len(players)]["assists"] = 0
        /\ players[Len(players)]["matches_played"] = 0
        /\ session = users[Len(users)]["id"]
        /\ resp.redirect = "/dashboard"

C5_Witness ==
    /\ req.op = "register"
    /\ resp.status = 201
    /\ Len(users) = 2
    /\ pre.session = 1
    /\ session = 2

\* ------------------------------------------------ players and videos

Authenticated == pre.session # Anonymous

\* The request names a Player row that belongs to someone else than the
\* acting identity.
ForeignPlayerRequested ==
    /\ req.op \in {"player_profile", "get_player_videos"}
    /\ \E i \in 1..Len(pre.players) :
          /\ pre.players[i]["id"] = req.player_id
          /\ pre.players[i]["user_id"] # pre.session

\* The request names a Video row recorded for someone else.
ForeignVideoRequested ==
    /\ req.op = "get_video"
    /\ \E i \in 1..Len(pre.videos) :
          /\ pre.videos[i]["id"] = req.video_id
          /\ pre.videos[i]["user_id"] # pre.session

\* C2: player_profile, get_player_videos and get_video asked by an identity
\* other than the owner answer with an error or a redirect and carry none
\* of the owner's player or video data.
C2_NoForeignData ==
    (ForeignPlayerRequested \/ ForeignVideoRequested) =>
        /\ resp.status # 200
        /\ resp.data = None

C2_Witness ==
    /\ req.op = "player_profile"
    /\ ForeignPlayerRequested
    /\ Authenticated
    /\ resp = Redirect("/")

\* The acting identity is logged in and owns the player of the path.
ActorOwnsPlayer ==
    /\ Authenticated
    /\ \E i \in 1..Len(pre.players) :
          /\ pre.players[i]["id"] = req.player_id
          /\ pre.players[i]["user_id"] = pre.session

SourceType ==
    IF "source_type" \in DOMAIN req.form THEN req.form["source_type"]
    ELSE "file"

\* The name ends in a dot and an allowed extension, whatever the case.
HasAllowedExtension(name) ==
    \E ext \in ALLOWED_EXTENSIONS :
        /\ Len(name) > Len(ext)
        /\ name[Len(name) - Len(ext)] = "."
        /\ lower(SubSeq(name, Len(name) - Len(ext) + 1, Len(name))) = ext

FileSent == SourceType = "file" /\ "video" \in DOMAIN req.uploads

UrlSent == SourceType # "file" /\ "video_url" \in DOMAIN req.form

Host(text) == InNetloc(text, urlparse(req.form["video_url"]).netloc)

IsYoutubeCom == Host("youtube.com")

IsYoutuBe == ~Host("youtube.com") /\ Host("youtu.be")

\* The values of the v parameter and the path after its leading slash.
VParameters == QueryValues(urlparse(req.form["video_url"]).query, <<"v">>)

ShortPath == PathAfterSlash(urlparse(req.form["video_url"]).path)

RecognizedLink ==
    \/ IsYoutubeCom /\ VParameters # <<>>
    \/ IsYoutuBe /\ ShortPath # <<>>

OneVideoAdded ==
    /\ Len(videos) = Len(pre.videos) + 1
    /\ SubSeq(videos, 1, Len(pre.videos)) = pre.videos

NewVideo == videos[Len(videos)]

\* C6 as stated: an upload by the owner with a title and an allowed file
\* or a recognized link is answered 201, stores exactly one Video row for
\* that player and actor, and returns it with its metadata.
C6_UploadSucceeds ==
    (/\ req.op = "upload_video"
     /\ req.fault = 0
     /\ ActorOwnsPlayer
     /\ "title" \in DOMAIN req.form
     /\ \/ FileSent /\ HasAllowedExtension(req.uploads["video"].filename)
        \/ UrlSent /\ RecognizedLink)
    => /\ resp.status = 201
       /\ OneVideoAdded
       /\ NewVideo["player_id"] = req.player_id
       /\ NewVideo["user_id"] = pre.session
       /\ resp.data = VideoJson(NewVideo)
       /\ {"action_type", "skill_rating", "tags", "notes"}
             \subseteq DOMAIN resp.data

\* The upload carries a file whose name has no allowed extension.
DisallowedFileSent ==
    /\ req.op = "upload_video"
    /\ FileSent
    /\ ~HasAllowedExtension(req.uploads["video"].filename)

NothingWritten ==
    /\ saved = <<>>
    /\ files = pre.files
    /\ videos = pre.videos

PlayerExists ==
    \E i \in 1..Len(pre.players) : pre.players[i]["id"] = req.player_id

\* C7 as stated: every such upload is answered 400 and writes nothing
\* (looked at for a logged-in actor and a player that exists).
C7_DisallowedAlways400 ==
    (DisallowedFileSent /\ Authenticated /\ PlayerExists) =>
        (resp.status = 400 /\ NothingWritten)

\* C7 amended: every such upload is refused before any file is written and
\* leaves the upload directory and the Video table as they were; the status
\* is 400 when the actor is logged in and owns the player, 404 when the
\* actor is logged in and does not, and the login redirect otherwise.
C7_DisallowedRejectedBeforeWrite ==
    DisallowedFileSent =>
        /\ NothingWritten
        /\ resp.status = (IF ~Authenticated THEN 302
                          ELSE IF ~ActorOwnsPlayer THEN 404
                          ELSE 400)

C7_Witness ==
    /\ DisallowedFileSent
    /\ ActorOwnsPlayer
    /\ "title" \in DOMAIN req.form
    /\ req.uploads["video"].filename = <<"a", ".", "e", "x", "e">>
    /\ resp = ErrorResponse(400, "File type not allowed")

LinkUpload ==
    /\ req.op = "upload_video"
    /\ req.fault = 0
    /\ ActorOwnsPlayer
    /\ "title" \in DOMAIN req.form
    /\ UrlSent

LinkRejected == resp.status = 400 /\ videos = pre.videos

LinkAcceptedAs(id) ==
    /\ resp.status = 201
    /\ OneVideoAdded
    /\ NewVideo["video_type"] = "youtube"
    /\ NewVideo["youtube_id"] = id

\* C8 as stated: a link upload is answered 400 with no Video row when the
\* link is of neither host or carries no identifier; a youtu.be link with a
\* path is accepted with the path after the slash as external id, a
\* youtube.com link with a v parameter with its first v value.
C8_LinkRule ==
    LinkUpload =>
        /\ ~RecognizedLink => LinkRejected
        /\ (IsYoutuBe /\ ShortPath # <<>>) => LinkAcceptedAs(ShortPath)
        /\ (IsYoutubeCom /\ VParameters # <<>>)
              => LinkAcceptedAs(VParameters[1])

\* text contains sub, case ignored.
ContainsCI(text, sub) ==
    \E i \in 0..(Len(text) - Len(sub)) :
        lower(SubSeq(text, i + 1, i + Len(sub))) = lower(sub)

NameFilter ==
    IF "name" \in DOMAIN req.args THEN req.args["name"] ELSE <<>>

TeamFilter ==
    IF "team" \in DOMAIN req.args THEN req.args["team"] ELSE <<>>

RoleFilter ==
    IF "role" \in DOMAIN req.args THEN req.args["role"] ELSE ""

SatisfiesFilters(p) ==
    /\ NameFilter # <<>> =>
          ("name" \in DOMAIN p /\ ContainsCI(p["name"], NameFilter))
    /\ TeamFilter # <<>> =>
          ("team" \in DOMAIN p /\ ContainsCI(p["team"], TeamFilter))
    /\ RoleFilter # "" => ("role" \in DOMAIN p /\ p["role"] = RoleFilter)

CreatedAt(id) ==
    LET row == CHOOSE p \in SeqToSet(pre.players) : p["id"] = id
    IN row["created_at"]

\* C9 as stated: search_players answers with exactly the Player rows that
\* satisfy every supplied filter, newest first; with no filter, every row.
C9_SearchResult ==
    req.op = "search_players" =>
        /\ resp.status = 200
        /\ {resp.data[i]["id"] : i \in 1..Len(resp.data)}
              = {p["id"] : p \in {q \in SeqToSet(pre.players) :
                                     SatisfiesFilters(q)}}
        /\ Len(resp.data)
              = Cardinality({q \in SeqToSet(pre.players) :
                                SatisfiesFilters(q)})
        /\ \A i \in 1..(Len(resp.data) - 1) :
              CreatedAt(resp.data[i]["id"])
                  >= CreatedAt(resp.data[i + 1]["id"])

OnePlayerAdded ==
    /\ Len(players) = Len(pre.players) + 1
    /\ SubSeq(players, 1, Len(pre.players)) = pre.players

\* C10 as stated: create_player by a logged-in actor with name, team and
\* role answers 201 and stores exactly one Player row owned by the actor,
\* goals and assists as sent or 0; with one of the three missing it answers
\* 400 and stores nothing.
C10_CreatePlayer ==
    (req.op = "create_player" /\ Authenticated /\ req.fault = 0) =>
        IF {"name", "team", "role"} \subseteq DOMAIN req.data
        THEN /\ resp.status = 201
             /\ OnePlayerAdded
             /\ players[Len(players)]["user_id"] = pre.session
             /\ players[Len(players)]["goals"]
                   = (IF "goals" \in DOMAIN req.data
                      THEN req.data["goals"] ELSE 0)
             /\ players[Len(players)]["assists"]
                   = (IF "assists" \in DOMAIN req.data
                      THEN req.data["assists"] ELSE 0)
        ELSE /\ resp.status = 400
             /\ players = pre.players

\* ------------------------------------------------- get_video error answers

RequestedVideo ==
    SelectSeq(pre.videos, LAMBDA v : v["id"] = req.video_id)

\* C11 as stated: get_video by a logged-in actor answers 404 when no Video
\* row has the requested id, and 403 when the row exists but its player_id
\* differs from the path's player or its user_id differs from the actor.
C11_GetVideoErrors ==
    (req.op = "get_video" /\ Authenticated) =>
        IF RequestedVideo = <<>>
        THEN resp.status = 404
        ELSE (\/ RequestedVideo[1]["player_id"] # req.player_id
              \/ RequestedVideo[1]["user_id"] # pre.session)
                 => resp.status = 403

\* ------------------------------------------------------ session lifecycle

\* The endpoints behind login_required that the lifecycle is stated for.
LoginRequired ==
    {"logout", "create_player", "upload_video", "get_video",
     "get_player_videos"}

NothingPersisted == TablesUnchanged /\ files = pre.files

\* C12: logout acts only on an active session and clears it; while nobody
\* is logged in, check_auth reports unauthenticated, every login-required
\* endpoint answers the login redirect and leaves tables and files alone,
\* and only a successful login or register ends the logged-out period.
C12_SessionLifecycle ==
    /\ req.op = "logout" =>
          /\ session = Anonymous
          /\ Authenticated => resp = Redirect("/")
    /\ (req.op = "check_auth" /\ ~Authenticated) =>
          /\ resp.status = 200
          /\ resp.data = [authenticated |-> FALSE]
          /\ NothingPersisted
          /\ session = Anonymous
    /\ (req.op \in LoginRequired /\ ~Authenticated) =>
          /\ resp = Redirect("/login")
          /\ NothingPersisted
          /\ session = Anonymous
    /\ (~Authenticated /\ session # Anonymous) =>
          /\ req.op \in {"register", "login"}
          /\ resp.status \in {200, 201}

\* A user exists, so an earlier request logged in, and nobody is logged in
\* now, so a logout cleared that session; the upload sent in this period
\* was turned away.
C12_Witness ==
    /\ req.op = "upload_video"
    /\ pre.users # <<>>
    /\ ~Authenticated
    /\ resp = Redirect("/login")
    /\ NothingPersisted

\* ------------------------------------------------------- failed mutations

Mutating == {"register", "main_register", "create_player", "upload_video"}

HasProfile(user) ==
    \E i \in 1..Len(players) : players[i]["user_id"] = user["id"]

\* C13 as stated: a register, create_player or upload_video request that
\* ends with a 4xx or 5xx status leaves the User, Player and Video tables
\* exactly as they were; a register answered 500 leaves no User row without
\* a Player profile.
C13_FailedRequestChangesNothing ==
    /\ (req.op \in Mutating /\ resp.status >= 400) => TablesUnchanged
    /\ (req.op = "register" /\ resp.status = 500) =>
          \A i \in 1..Len(users) : HasProfile(users[i])

\* ------------------------------------------------ cleanup after a failure

\* The request wrote its file (under the sanitized name) and then failed.
FailedAfterWrite ==
    /\ req.op = "upload_video"
    /\ saved # <<>>
    /\ resp.status = 500

\* C14: when an upload fails after its file was written, that file is
\* deleted: once the 500 is answered the upload directory holds no file
\* under the request's sanitized filename and the Video table has no new
\* row.
C14_FailedUploadRemovesFile ==
    FailedAfterWrite =>
        /\ saved[1] = secure_filename(req.uploads["video"].filename)
        /\ saved[1] \notin DOMAIN files
        /\ videos = pre.videos

C14_Witness ==
    /\ FailedAfterWrite
    /\ req.uploads["video"].filename
          = <<".", ".", "/", "a", ".", "m", "p", "4">>
    /\ saved = << <<"a", ".", "m", "p", "4">> >>
    /\ files = <<>>
    /\ videos = pre.videos

\* ------------------------------------------------- two registers, one email

SameEmail(a, b) == inflight[a].data["email"] = inflight[b].data["email"]

UsersWithEmail(email) ==
    {i \in 1..Len(users) : users[i]["email"] = email}

\* C15: however two register requests with the same email interleave, at
\* most one User row with that email is persisted and at most one of the
\* two is answered 201; a request answered otherwise got an error status
\* and its client has no session.
C15_OneRegistrationPerEmail ==
    /\ \A c \in DOMAIN inflight :
          /\ Cardinality(UsersWithEmail(inflight[c].data["email"])) <= 1
          /\ inflight[c].status # 201 => inflight[c].session = Anonymous
          /\ Serving(c, "done") => inflight[c].status \in {201, 400, 500}
    /\ \A a, b \in DOMAIN inflight :
          (a # b /\ SameEmail(a, b)) =>
              ~(inflight[a].status = 201 /\ inflight[b].status = 201)

\* Both requests found the email free; one was answered 201, the other was
\* stopped by the store at its commit.
C15_Witness ==
    /\ DOMAIN inflight = {1, 2}
    /\ SameEmail(1, 2)
    /\ inflight[1].status = 201 /\ inflight[1].session # Anonymous
    /\ inflight[2].status = 500 /\ inflight[2].session = Anonymous
    /\ Cardinality(UsersWithEmail(inflight[1].data["email"])) = 1

\* ------------------------------------------------------ stored video files

FileBacked == SelectSeq(videos, LAMBDA v : v["video_type"] = "file")

\* Every upload that gets as far as Video(...) passes action_type and
\* skill_rating, which models.Video does not declare: no request stores a
\* Video row, and no file outlives the request that wrote it.
NoVideoStored ==
    /\ videos = <<>>
    /\ FileBacked = <<>>
    /\ files = <<>>

====
